---- MODULE Spec2Model ----
(***************************************************************************)
(* A model of the pdf_to_text pipeline: PDFToTextController.run,           *)
(* PdfToImageService, OCRTextFormatterService (page reconstruction and    *)
(* the thread-pool document assembly) and EasyOCRAdapter.                  *)
(*                                                                         *)
(* Strings are sequences of one-character strings, so that concatenation, *)
(* '\n'.join, str.lower() and truthiness are computed, not assumed.        *)
(* Coordinates are integers; every division the code performs on them is  *)
(* exact on the coordinates used here or is followed by int().             *)
(***************************************************************************)
EXTENDS Integers, Sequences, FiniteSets, TLC

(***************************************************************************)
(* Bounds of the model.                                                    *)
(***************************************************************************)
\* longest OCR output (detections of one page) explored by PageSpec
MaxDet == 3
\* largest num_rows / num_columns explored by PageSpec
MaxBins == 3
\* largest number of page images of one document
MaxPages == 3
\* largest ThreadPoolExecutor(max_workers=...)
MaxWorkers == 2

(***************************************************************************)
(* Program constants.                                                      *)
(***************************************************************************)
DefaultNumRows == 35
DefaultNumColumns == 20
DefaultSpaceRedutor == 8
DefaultFontSizeRegulator == 6

(***************************************************************************)
(* Strings.                                                                *)
(***************************************************************************)
UpperChars == <<"A","B","C","D","E","F","G","H","I","J","K","L","M",
                "N","O","P","Q","R","S","T","U","V","W","X","Y","Z">>
LowerChars == <<"a","b","c","d","e","f","g","h","i","j","k","l","m",
                "n","o","p","q","r","s","t","u","v","w","x","y","z">>
DigitChars == <<"0","1","2","3","4","5","6","7","8","9">>

\* str.lower() of one character
LowerChar(c) ==
    IF \E i \in 1..Len(UpperChars) : UpperChars[i] = c
    THEN LowerChars[CHOOSE i \in 1..Len(UpperChars) : UpperChars[i] = c]
    ELSE c

\* a bug: the string is kept as it is
Lower_unchanged(s) == s

\* str.lower()
Lower(s) == [i \in 1..Len(s) |-> LowerChar(s[i])]

\* str(n) for n >= 0
RECURSIVE IntToStr(_)
IntToStr(n) ==
    IF n < 10 THEN <<DigitChars[n + 1]>>
    ELSE IntToStr(n \div 10) \o <<DigitChars[(n % 10) + 1]>>

\* sep.join(parts)
RECURSIVE Join(_, _)
Join(parts, sep) ==
    IF parts = <<>> THEN <<>>
    ELSE IF Len(parts) = 1 THEN parts[1]
    ELSE parts[1] \o sep \o Join(Tail(parts), sep)

\* ' ' * n  (the empty string when n <= 0)
Spaces(n) == [i \in 1..(IF n > 0 THEN n ELSE 0) |-> " "]

Reverse(s) == [i \in 1..Len(s) |-> s[Len(s) + 1 - i]]

NewLine == <<"\n">>

\* f"End of page {page_id}"
EndOfPage(page_id) ==
    <<"E","n","d"," ","o","f"," ","p","a","g","e"," ">> \o IntToStr(page_id)

(***************************************************************************)
(* Exceptions: a type and the chain of messages interpolated into it.      *)
(* A call result is [ok |-> TRUE, value |-> v] or [ok |-> FALSE, exc |-> e]*)
(***************************************************************************)
Exc(type, msg) == [type |-> type, msg |-> msg]
Ok(v) == [ok |-> TRUE, value |-> v]
Raise(e) == [ok |-> FALSE, exc |-> e]

(***************************************************************************)
(* The OCR engine's raw output: a list of [bounding_box, text] rows (the   *)
(* confidence, row[2], is never read).  A bounding box is the list of its  *)
(* corner points top-left, top-right, bottom-right, bottom-left.           *)
(***************************************************************************)
Box(x, y, w, h, skew) ==
    << <<x, y>>, <<x + w, y + skew>>, <<x + w, y + h + skew>>, <<x, y + h>> >>

RawRow(bbox, text) == [bounding_box |-> bbox, text |-> text]

Hello == <<"H","e","l","l","o">>
World == <<"W","o","r","l","d">>
Hi == <<"H","i">>
Ab == <<"a","b">>

\* the detections the OCR engine reports in this model
HelloAt0 == RawRow(Box(0, 0, 50, 8, 0), Hello)
WorldAt60 == RawRow(Box(60, 0, 50, 8, 0), World)
HiAt3 == RawRow(Box(3, 0, 20, 8, 0), Hi)
HiAt30Lower == RawRow(Box(30, 10, 20, 8, 0), Hi)
WorldAt0Lowest == RawRow(Box(0, 20, 50, 8, 0), World)
AbAt60Skewed == RawRow(Box(60, 10, 20, 8, 2), Ab)

RawRows ==
    { HelloAt0, WorldAt60, HiAt3, HiAt30Lower, WorldAt0Lowest, AbAt60Skewed }

\* detections whose bounding box is not four distinct corner points: no
\* point, one point, four times the same point
AbNoPoint == RawRow(<<>>, Ab)
AbOnePoint == RawRow(<< <<5, 5>> >>, Ab)
HiAtDot == RawRow(Box(7, 7, 0, 0, 0), Hi)

DegenerateRows == { AbNoPoint, AbOnePoint, HiAtDot }

\* the sequences of at most n elements of S
RECURSIVE SeqsUpTo(_, _)
SeqsUpTo(S, n) ==
    IF n = 0 THEN { <<>> }
    ELSE LET shorter == SeqsUpTo(S, n - 1)
         IN  shorter \cup { Append(s, e) : s \in { t \in shorter : Len(t) = n - 1 }, e \in S }

\* the OCR outputs of one page: at most MaxDet detections, in any order, each
\* text box reported once
OcrOutputs ==
    { s \in SeqsUpTo(RawRows, MaxDet) :
        \A i, j \in 1..Len(s) : i # j => s[i] # s[j] }

\* the OCR outputs of one page that may hold degenerate bounding boxes
DegenerateOcrOutputs ==
    { s \in SeqsUpTo(RawRows \cup DegenerateRows, MaxDet) :
        \A i, j \in 1..Len(s) : i # j => s[i] # s[j] }

(***************************************************************************)
(* EasyOCRAdapter                                                          *)
(***************************************************************************)
\* get_x_axis: bounding_box[0][0]
get_x_axis(bounding_box) ==
    IF Len(bounding_box) < 1 \/ Len(bounding_box[1]) < 1
    THEN Raise(Exc("IndexError", <<"list index out of range">>))
    ELSE Ok(bounding_box[1][1])

\* a bug: the y of a box with a missing corner is taken to be 0
get_y_axis_defaulting(bounding_box) ==
    IF Len(bounding_box) < 2 \/ Len(bounding_box[1]) < 2 \/ Len(bounding_box[2]) < 2
    THEN Ok(0)
    ELSE LET y_start == bounding_box[1][2]
             y_end == bounding_box[2][2]
         IN  Ok(((y_end - y_start) \div 2) + y_end)

\* get_y_axis: ((y_end - y_start) / 2) + y_end with y_start = bounding_box[0][1]
\* and y_end = bounding_box[1][1]
get_y_axis(bounding_box) ==
    IF Len(bounding_box) < 2 \/ Len(bounding_box[1]) < 2 \/ Len(bounding_box[2]) < 2
    THEN Raise(Exc("IndexError", <<"list index out of range">>))
    ELSE LET y_start == bounding_box[1][2]
             y_end == bounding_box[2][2]
         IN  Ok(((y_end - y_start) \div 2) + y_end)

\* create_ocr_metadata: one {'text','x','y','text_length'} dict per row
RECURSIVE create_ocr_metadata(_)
create_ocr_metadata(ocr_output) ==
    IF ocr_output = <<>> THEN Ok(<<>>)
    ELSE LET row == Head(ocr_output)
             x == get_x_axis(row.bounding_box)
             y == get_y_axis(row.bounding_box)
             rest == create_ocr_metadata(Tail(ocr_output))
         IN  IF ~x.ok THEN x
             ELSE IF ~y.ok THEN y
             ELSE IF ~rest.ok THEN rest
             ELSE Ok(<< [text |-> row.text, x |-> x.value, y |-> y.value,
                         text_length |-> Len(row.text)] >> \o rest.value)

(***************************************************************************)
(* pandas.  A DataFrame is the sequence of its rows, a row a record.       *)
(***************************************************************************)
MaxOf(S) == CHOOSE m \in S : \A v \in S : v <= m
MinOf(S) == CHOOSE m \in S : \A v \in S : m <= v

RECURSIVE SortedSeqOf(_)
SortedSeqOf(S) ==
    IF S = {} THEN <<>> ELSE <<MinOf(S)>> \o SortedSeqOf(S \ {MinOf(S)})

\* a bug: pd.cut(x, bins, right=False), each bin is [lo, hi) and the last
\* edge is moved above mx so that mx falls in the last bin
CutCode_left_closed(v, mn, mx, bins) ==
    IF mn = mx THEN ((bins + 1) \div 2) - 1
    ELSE (CHOOSE i \in 1..bins :
             /\ (v - mn) * bins >= (i - 1) * (mx - mn)
             /\ (i = bins \/ (v - mn) * bins < i * (mx - mn))) - 1

\* The bin of v among the `bins` equal-width bins pd.cut(x, bins) lays over
\* [mn, mx] (right=True: each bin is (lo, hi], the first edge is moved 0.1 % of
\* the range below mn so that mn falls in bin 0).  When mn = mx the range is
\* widened by 0.001 on both sides and the value sits in the middle of it.
\* The bin is named by its position 0..bins-1, which orders bins as their
\* lower bounds do.
CutCode(v, mn, mx, bins) ==
    IF mn = mx THEN ((bins + 1) \div 2) - 1
    ELSE (CHOOSE i \in 1..bins :
             /\ (v - mn) * bins <= i * (mx - mn)
             /\ (i = 1 \/ (v - mn) * bins > (i - 1) * (mx - mn))) - 1

\* a bug: a bin count below 1 is taken to be 1
pd_cut_lenient(values, bins) ==
    IF values = <<>>
    THEN Raise(Exc("ValueError", <<"Cannot cut empty array">>))
    ELSE LET vs == { values[i] : i \in 1..Len(values) }
         IN  Ok([i \in 1..Len(values) |->
                    CutCode(values[i], MinOf(vs), MaxOf(vs),
                            IF bins < 1 THEN 1 ELSE bins)])

\* pd.cut(values, bins=bins) for a scalar bins
pd_cut(values, bins) ==
    IF bins < 1
    THEN Raise(Exc("ValueError", <<"bins should be a positive integer.">>))
    ELSE IF values = <<>>
    THEN Raise(Exc("ValueError", <<"Cannot cut empty array">>))
    ELSE LET vs == { values[i] : i \in 1..Len(values) }
         IN  Ok([i \in 1..Len(values) |->
                    CutCode(values[i], MinOf(vs), MaxOf(vs), bins)])

\* DataFrame.sort_values(by=['row','column'], ascending=[False, True]):
\* a stable lexicographic sort, rows that tie keep their order
RowBefore(a, b) == a.row > b.row \/ (a.row = b.row /\ a.column < b.column)

InsertStable(sorted, e) ==
    LET later == { i \in 1..Len(sorted) : RowBefore(e, sorted[i]) }
        k == IF later = {} THEN Len(sorted) + 1 ELSE MinOf(later)
    IN  SubSeq(sorted, 1, k - 1) \o <<e>> \o SubSeq(sorted, k, Len(sorted))

RECURSIVE sort_values(_)
sort_values(dataset) ==
    IF dataset = <<>> THEN <<>>
    ELSE InsertStable(sort_values(SubSeq(dataset, 1, Len(dataset) - 1)),
                      dataset[Len(dataset)])

\* DataFrame.groupby('row'): the groups in ascending key order, each keeping
\* the order its rows have in the frame
groupby_row(dataset) ==
    LET keys == SortedSeqOf({ dataset[i].row : i \in 1..Len(dataset) })
    IN  [k \in 1..Len(keys) |-> SelectSeq(dataset, LAMBDA r : r.row = keys[k])]

(***************************************************************************)
(* OCRTextFormatterService: reconstruction of one page                    *)
(***************************************************************************)
\* a bug: y is left in image space (line 48 missing)
create_pandas_dataset_unflipped(dataset) == dataset

\* _create_pandas_dataset: y := max_y - y
create_pandas_dataset(dataset) ==
    IF dataset = <<>> THEN dataset
    ELSE LET max_y == MaxOf({ dataset[i].y : i \in 1..Len(dataset) })
         IN  [i \in 1..Len(dataset) |-> [dataset[i] EXCEPT !.y = max_y - @]]

\* a bug: the classes keep the position of their interval among all
\* num_classes intervals instead of being renumbered
create_axis_classes_unranked(dataset, axis_source_name, axis_target_name, axis_classes_name, num_classes) ==
    IF dataset = <<>>
    THEN Raise(Exc("KeyError", <<axis_source_name>>))
    ELSE
    LET cut == pd_cut([i \in 1..Len(dataset) |-> dataset[i][axis_source_name]],
                      num_classes)
    IN  IF ~cut.ok THEN cut
        ELSE LET used == SortedSeqOf({ cut.value[i] : i \in 1..Len(dataset) })
             IN  Ok([dataset |-> [i \in 1..Len(dataset) |->
                                     (axis_classes_name :> cut.value[i]) @@ dataset[i]],
                     classes |-> [k \in 1..Len(used) |->
                                     (axis_classes_name :> used[k])
                                     @@ (axis_target_name :> used[k])]])

\* a bug: the classes table is neither sorted nor freed of duplicates (lines
\* 84-88 missing), so it holds one class row per row of the frame
create_axis_classes_with_duplicates(dataset, axis_source_name, axis_target_name, axis_classes_name, num_classes) ==
    IF dataset = <<>>
    THEN Raise(Exc("KeyError", <<axis_source_name>>))
    ELSE
    LET cut == pd_cut([i \in 1..Len(dataset) |-> dataset[i][axis_source_name]],
                      num_classes)
    IN  IF ~cut.ok THEN cut
        ELSE Ok([dataset |-> [i \in 1..Len(dataset) |->
                                (axis_classes_name :> cut.value[i]) @@ dataset[i]],
                 classes |-> [k \in 1..Len(dataset) |->
                                (axis_classes_name :> cut.value[k])
                                @@ (axis_target_name :> k - 1)]])

\* _create_axis_classes: pd.cut writes the class of every row into the frame
\* (in place); the classes in use, sorted and without duplicates, are numbered
\* range(0, len(classes)).  The value is the frame and the classes table.
create_axis_classes(dataset, axis_source_name, axis_target_name, axis_classes_name, num_classes) ==
    IF dataset = <<>>
    THEN Raise(Exc("KeyError", <<axis_source_name>>))
    ELSE
    LET cut == pd_cut([i \in 1..Len(dataset) |-> dataset[i][axis_source_name]],
                      num_classes)
    IN  IF ~cut.ok THEN cut
        ELSE LET used == SortedSeqOf({ cut.value[i] : i \in 1..Len(dataset) })
             IN  Ok([dataset |-> [i \in 1..Len(dataset) |->
                                     (axis_classes_name :> cut.value[i]) @@ dataset[i]],
                     classes |-> [k \in 1..Len(used) |->
                                     (axis_classes_name :> used[k])
                                     @@ (axis_target_name :> k - 1)]])

\* pd.merge(left=dataset, right=classes, on=[class_name], how='left'): every
\* left row, in the left order, once per right row with the same key
RECURSIVE pd_merge_left(_, _, _, _)
pd_merge_left(left, right, on, target_name) ==
    IF left = <<>> THEN <<>>
    ELSE LET l == Head(left)
             matches == SelectSeq(right, LAMBDA r : r[on] = l[on])
         IN  [k \in 1..Len(matches) |-> (target_name :> matches[k][target_name]) @@ l]
             \o pd_merge_left(Tail(left), right, on, target_name)

\* _calculate_axis
calculate_axis(dataset, source_name, target_name, class_name, num_classes) ==
    LET classes == create_axis_classes(dataset, source_name, target_name,
                                       class_name, num_classes)
    IN  IF ~classes.ok THEN classes
        ELSE Ok(pd_merge_left(classes.value.dataset, classes.value.classes,
                              class_name, target_name))

\* _map_text_positions
map_text_positions(dataset, num_rows, num_columns) ==
    LET rows == calculate_axis(dataset, "y", "row", "classes_y", num_rows)
    IN  IF ~rows.ok THEN rows
        ELSE calculate_axis(rows.value, "x", "column", "classes_x", num_columns)

\* a bug: the pivot is advanced to x, not to x + text_length
RECURSIVE format_line_loop_pivot_at_x(_, _, _, _, _)
format_line_loop_pivot_at_x(dataset, i, pivot, line_text, space_redutor) ==
    IF i > Len(dataset) THEN line_text
    ELSE LET row == dataset[i]
             start_text == row.x
             spaces_len == IF start_text >= pivot
                           THEN (start_text - pivot) \div (2 * (space_redutor + 1))
                           ELSE 1
         IN  format_line_loop_pivot_at_x(dataset, i + 1, start_text,
                              line_text \o <<Spaces(spaces_len), row.text>>,
                              space_redutor)

\* a bug: the gap formula is used for every row, also when x < pivot
\* (line 249-250 missing)
RECURSIVE format_line_loop_without_floor(_, _, _, _, _)
format_line_loop_without_floor(dataset, i, pivot, line_text, space_redutor) ==
    IF i > Len(dataset) THEN line_text
    ELSE LET row == dataset[i]
             start_text == row.x
             spaces_len == (start_text - pivot) \div (2 * (space_redutor + 1))
         IN  format_line_loop_without_floor(dataset, i + 1,
                              start_text + row.text_length,
                              line_text \o <<Spaces(spaces_len), row.text>>,
                              space_redutor)

\* _format_line, the loop: line_text after the rows from i on were visited
RECURSIVE format_line_loop(_, _, _, _, _)
format_line_loop(dataset, i, pivot, line_text, space_redutor) ==
    IF i > Len(dataset) THEN line_text
    ELSE LET row == dataset[i]
             start_text == row.x
             spaces_len == IF start_text >= pivot
                           THEN (start_text - pivot) \div (2 * (space_redutor + 1))
                           ELSE 1
         IN  format_line_loop(dataset, i + 1, start_text + row.text_length,
                              line_text \o <<Spaces(spaces_len), row.text>>,
                              space_redutor)

\* a bug: the pivot is advanced by text_length * font_size_regulator
format_line_scaled(dataset, space_redutor, font_size_regulator) ==
    Join(format_line_loop([k \in 1..Len(dataset) |->
                             [dataset[k] EXCEPT
                                 !.text_length = @ * font_size_regulator]],
                          1, 0, <<>>, space_redutor), <<>>)

\* _format_line: ''.join(line_text)
format_line(dataset, space_redutor, font_size_regulator) ==
    Join(format_line_loop(dataset, 1, 0, <<>>, space_redutor), <<>>)

\* _format_output, lines 278-284: the lines of the page, top of the page first
reconstructed_doc_of(dataset, space_redutor, font_size_regulator) ==
    LET sorted == sort_values(dataset)
        grouped == groupby_row(sorted)
    IN  Reverse([g \in 1..Len(grouped) |->
                    format_line(grouped[g], space_redutor, font_size_regulator)])

\* _format_output
format_output(dataset, space_redutor, font_size_regulator) ==
    Join(reconstructed_doc_of(dataset, space_redutor, font_size_regulator), NewLine)

\* a bug: no short-circuit for an empty OCR output (line 208-209 missing), the
\* empty frame goes to the binning
extract_without_short_circuit(ocr_output, num_rows, num_columns, space_redutor, font_size_regulator) ==
    LET wrap(e) == Raise(Exc("Exception", <<"Fail on format ocr output">> \o e.msg))
        metadata == create_ocr_metadata(ocr_output)
    IN  IF ~metadata.ok THEN [cut_calls |-> 0] @@ wrap(metadata.exc)
        ELSE
        LET dataset == create_pandas_dataset(metadata.value)
            rows == calculate_axis(dataset, "y", "row", "classes_y", num_rows)
        IN  IF ~rows.ok THEN [cut_calls |-> 1] @@ wrap(rows.exc)
            ELSE
            LET columns == calculate_axis(rows.value, "x", "column", "classes_x",
                                          num_columns)
            IN  IF ~columns.ok THEN [cut_calls |-> 2] @@ wrap(columns.exc)
                ELSE [cut_calls |-> 2]
                     @@ Ok(format_output(columns.value, space_redutor,
                                         font_size_regulator))

\* _extract_formated_text_from_image.  The result also carries cut_calls, the
\* number of times the call entered _create_axis_classes (the pd.cut site).
extract_formated_text_from_image(ocr_output, num_rows, num_columns, space_redutor, font_size_regulator) ==
    IF ocr_output = <<>> THEN [cut_calls |-> 0] @@ Ok(<<>>)
    ELSE
    LET wrap(e) == Raise(Exc("Exception", <<"Fail on format ocr output">> \o e.msg))
        metadata == create_ocr_metadata(ocr_output)
    IN  IF ~metadata.ok THEN [cut_calls |-> 0] @@ wrap(metadata.exc)
        ELSE
        LET dataset == create_pandas_dataset(metadata.value)
            rows == calculate_axis(dataset, "y", "row", "classes_y", num_rows)
        IN  IF ~rows.ok THEN [cut_calls |-> 1] @@ wrap(rows.exc)
            ELSE
            LET columns == calculate_axis(rows.value, "x", "column", "classes_x",
                                          num_columns)
            IN  IF ~columns.ok THEN [cut_calls |-> 2] @@ wrap(columns.exc)
                ELSE [cut_calls |-> 2]
                     @@ Ok(format_output(columns.value, space_redutor,
                                         font_size_regulator))

(***************************************************************************)
(* The OCR engine and the documents of the model                           *)
(***************************************************************************)
\* what the engine answers for one page image: it fails, or it returns rows
EngineFails == [fails |-> TRUE, output |-> <<>>]
EngineReads(rows) == [fails |-> FALSE, output |-> rows]

EngineAnswers ==
    { EngineFails,
      EngineReads(<<>>),
      EngineReads(<< HiAt3 >>),
      EngineReads(<< WorldAt60, HelloAt0 >>) }

\* EasyOCRAdapter.read_text_from_image
read_text_from_image(answer) ==
    IF answer.fails
    THEN Raise(Exc("Exception", <<"Fail to extract text from OCR", "engine error">>))
    ELSE Ok(answer.output)

\* _process_document_text
process_document_text(page_id, answer, num_rows, num_columns, space_redutor, font_size_regulator) ==
    LET ocr_output == read_text_from_image(answer)
    IN  IF ~ocr_output.ok THEN [cut_calls |-> 0] @@ ocr_output
        ELSE
        LET formated_text ==
                extract_formated_text_from_image(ocr_output.value, num_rows,
                    num_columns, space_redutor, font_size_regulator)
        IN  IF ~formated_text.ok THEN formated_text
            ELSE [cut_calls |-> formated_text.cut_calls]
                 @@ Ok([page_id |-> page_id, formated_text |-> formated_text.value])

(***************************************************************************)
(* State                                                                   *)
(***************************************************************************)
VARIABLES
    \* the document and the environment
    file_type,            \* what filetype.guess answers for document_bits
    pdf_pages,            \* the number of pages the document holds
    pages_to_include,     \* run's argument; <<>> stands for None
    ocr_engine,           \* page of the document -> the engine's answer for its image
    \* create_controller's arguments
    max_workers, num_rows, num_columns, space_redutor, font_size_regulator,
    \* PDFToTextController.run and OCRTextFormatterService.handle_request
    pc,                   \* where run is
    process_object,       \* the ProcessObject dict
    futures,              \* document_futures, in submission order
    yielded,              \* the futures as_completed has yielded so far
    document_results,     \* the results collected so far, in collection order
    content,              \* handle_request's local list `content`
    outcome,              \* << >>, or the one result of run: a text or an exception
    run_no,               \* 1 for the first run over the document, 2 for the second
    first_outcome,        \* the outcome of the first run, once a second was started
    \* one call of _extract_formated_text_from_image, step by step (PageSpec)
    pg_pc, ocr_output, dataset, page_result, cut_calls

vars == << file_type, pdf_pages, pages_to_include, ocr_engine,
           max_workers, num_rows, num_columns, space_redutor, font_size_regulator,
           pc, process_object, futures, yielded, document_results, content,
           outcome, run_no, first_outcome,
           pg_pc, ocr_output, dataset, page_result, cut_calls >>

doc_vars == << file_type, pdf_pages, pages_to_include, ocr_engine, max_workers >>
run_vars == << pc, process_object, futures, yielded, document_results, content,
               outcome, run_no, first_outcome >>
param_vars == << num_rows, num_columns, space_redutor, font_size_regulator >>
page_vars == << pg_pc, ocr_output, dataset, page_result, cut_calls >>

(***************************************************************************)
(* PageSpec: _extract_formated_text_from_image on one OCR output           *)
(***************************************************************************)
NoDocument ==
    /\ file_type = "pdf" /\ pdf_pages = 0 /\ pages_to_include = <<>>
    /\ ocr_engine = <<>> /\ max_workers = 1
    /\ pc = "idle" /\ process_object = [file_name |-> "doc"]
    /\ futures = <<>> /\ yielded = {} /\ document_results = <<>>
    /\ content = <<>> /\ outcome = <<>> /\ run_no = 1 /\ first_outcome = <<>>

PageInit ==
    /\ NoDocument
    /\ num_rows \in 0..MaxBins
    /\ num_columns \in 0..MaxBins
    /\ space_redutor \in {1, DefaultSpaceRedutor}
    /\ font_size_regulator = DefaultFontSizeRegulator
    /\ ocr_output \in OcrOutputs
    /\ pg_pc = "called"
    /\ dataset = <<>>
    /\ page_result = <<>>
    /\ cut_calls = 0

\* an exception inside the try block: line 217-218
PgRaise(e) ==
    /\ pg_pc' = "raised"
    /\ page_result' = << Raise(Exc("Exception", <<"Fail on format ocr output">> \o e.msg)) >>
    /\ UNCHANGED dataset

\* line 208-209
PgShortCircuit ==
    /\ pg_pc = "called" /\ ocr_output = <<>>
    /\ pg_pc' = "returned"
    /\ page_result' = << Ok(<<>>) >>
    /\ UNCHANGED << dataset, cut_calls, ocr_output >>
    /\ UNCHANGED << doc_vars, run_vars, param_vars >>

\* line 211
PgCreateMetadata ==
    /\ pg_pc = "called" /\ ocr_output # <<>>
    /\ LET metadata == create_ocr_metadata(ocr_output)
       IN  IF metadata.ok
           THEN /\ dataset' = metadata.value
                /\ pg_pc' = "metadata"
                /\ UNCHANGED page_result
           ELSE PgRaise(metadata.exc)
    /\ UNCHANGED << cut_calls, ocr_output >>
    /\ UNCHANGED << doc_vars, run_vars, param_vars >>

\* line 213
PgCreateDataset ==
    /\ pg_pc = "metadata"
    /\ dataset' = create_pandas_dataset(dataset)
    /\ pg_pc' = "dataset"
    /\ UNCHANGED << page_result, cut_calls, ocr_output >>
    /\ UNCHANGED << doc_vars, run_vars, param_vars >>

\* line 214, _map_text_positions lines 159-165
PgRows ==
    /\ pg_pc = "dataset"
    /\ LET rows == calculate_axis(dataset, "y", "row", "classes_y", num_rows)
       IN  IF rows.ok
           THEN /\ dataset' = rows.value
                /\ pg_pc' = "rows"
                /\ UNCHANGED page_result
           ELSE PgRaise(rows.exc)
    /\ cut_calls' = cut_calls + 1
    /\ UNCHANGED ocr_output
    /\ UNCHANGED << doc_vars, run_vars, param_vars >>

\* line 214, _map_text_positions lines 171-179
PgColumns ==
    /\ pg_pc = "rows"
    /\ LET columns == calculate_axis(dataset, "x", "column", "classes_x", num_columns)
       IN  IF columns.ok
           THEN /\ dataset' = columns.value
                /\ pg_pc' = "columns"
                /\ UNCHANGED page_result
           ELSE PgRaise(columns.exc)
    /\ cut_calls' = cut_calls + 1
    /\ UNCHANGED ocr_output
    /\ UNCHANGED << doc_vars, run_vars, param_vars >>

\* line 215-216
PgFormatOutput ==
    /\ pg_pc = "columns"
    /\ page_result' = << Ok(format_output(dataset, space_redutor, font_size_regulator)) >>
    /\ pg_pc' = "returned"
    /\ UNCHANGED << dataset, cut_calls, ocr_output >>
    /\ UNCHANGED << doc_vars, run_vars, param_vars >>

PageNext ==
    \/ PgShortCircuit
    \/ PgCreateMetadata
    \/ PgCreateDataset
    \/ PgRows
    \/ PgColumns
    \/ PgFormatOutput

PageSpec == PageInit /\ [][PageNext]_vars

(***************************************************************************)
(* NormalizeSpec: the same call with the default layout parameters, on OCR *)
(* outputs that may hold degenerate bounding boxes                         *)
(***************************************************************************)
NormalizeInit ==
    /\ NoDocument
    /\ num_rows = DefaultNumRows
    /\ num_columns = DefaultNumColumns
    /\ space_redutor = DefaultSpaceRedutor
    /\ font_size_regulator = DefaultFontSizeRegulator
    /\ ocr_output \in DegenerateOcrOutputs
    /\ pg_pc = "called"
    /\ dataset = <<>>
    /\ page_result = <<>>
    /\ cut_calls = 0

NormalizeSpec == NormalizeInit /\ [][PageNext]_vars

(***************************************************************************)
(* Spec: PDFToTextController.run over one document, twice                  *)
(***************************************************************************)
NoPage ==
    /\ pg_pc = "idle" /\ ocr_output = <<>> /\ dataset = <<>>
    /\ page_result = <<>> /\ cut_calls = 0

\* the values run may be given for pages_to_include (<<>> stands for None)
PagesToInclude == { <<>>, <<2, 1>> }

\* run, lines 63-67
NewProcessObject ==
    [file_name |-> "doc", document_bits |-> "bits",
     pages_to_include |-> pages_to_include]

Init ==
    /\ NoPage
    /\ file_type \in {"pdf", "png", "zip"}
    /\ pdf_pages \in 0..MaxPages
    /\ file_type # "pdf" => pdf_pages = 1
    /\ pages_to_include \in PagesToInclude
    /\ ocr_engine \in [1..pdf_pages -> EngineAnswers]
    /\ max_workers \in 1..MaxWorkers
    /\ num_rows \in {0, DefaultNumRows}
    /\ num_columns \in {0, DefaultNumColumns}
    /\ num_rows = 0 => num_columns # 0
    /\ space_redutor = DefaultSpaceRedutor
    /\ font_size_regulator = DefaultFontSizeRegulator
    /\ pc = "run"
    /\ process_object = NewProcessObject
    /\ futures = <<>>
    /\ yielded = {}
    /\ document_results = <<>>
    /\ content = <<>>
    /\ outcome = <<>>
    /\ run_no = 1
    /\ first_outcome = <<>>

\* PDF2ImageAdapter.convert_pdf_from_bytes: the pages rasterized, in order
convert_pdf_from_bytes(pages, to_include) ==
    IF to_include # <<>>
    THEN IF \E k \in 1..Len(to_include) : to_include[k] \notin 1..pages
         THEN Raise(Exc("Exception", <<"Invalid page index in pages_to_include",
                                       "list index out of range">>))
         ELSE Ok(to_include)
    ELSE Ok([k \in 1..pages |-> k])

\* a bug: the id of an image is the number of the PDF page it was made from
convert_pdf_to_images_id_by_page(type, pages, to_include) ==
    LET wrap(e) == Raise(Exc("Exception", <<"Fail on convert PDF to JPG. Error">> \o e.msg))
    IN  IF type = "pdf"
        THEN LET data == convert_pdf_from_bytes(pages, to_include)
             IN  IF ~data.ok THEN wrap(data.exc)
                 ELSE Ok([i \in 1..Len(data.value) |->
                             [name |-> <<"doc", i>>, id |-> data.value[i],
                              image |-> data.value[i]]])
        ELSE IF type \in {"png", "jpg", "jpeg", "bmp", "jiff"}
        THEN Ok(<< [name |-> <<"doc">>, id |-> 1, image |-> 1] >>)
        ELSE wrap(Exc("Exception", <<"Invalid file type">>))

\* PdfToImageService._convert_pdf_to_images: the images dict, in insertion
\* order; an image is named by the page of the document it shows
convert_pdf_to_images(type, pages, to_include) ==
    LET wrap(e) == Raise(Exc("Exception", <<"Fail on convert PDF to JPG. Error">> \o e.msg))
    IN  IF type = "pdf"
        THEN LET data == convert_pdf_from_bytes(pages, to_include)
             IN  IF ~data.ok THEN wrap(data.exc)
                 ELSE Ok([i \in 1..Len(data.value) |->
                             [name |-> <<"doc", i>>, id |-> i, image |-> data.value[i]]])
        ELSE IF type \in {"png", "jpg", "jpeg", "bmp", "jiff"}
        THEN Ok(<< [name |-> <<"doc">>, id |-> 1, image |-> 1] >>)
        ELSE wrap(Exc("Exception", <<"Invalid file type">>))

\* run's except clause, line 87-88
RunRaises(e) ==
    /\ pc' = "raised"
    /\ outcome' = << Raise(Exc("Exception", <<"Fail in OCR process">> \o e.msg)) >>

\* run, lines 63-71: PdfToImageService.handle_request
ConvertToImages ==
    /\ pc = "run"
    /\ LET images == convert_pdf_to_images(file_type, pdf_pages, pages_to_include)
       IN  IF images.ok
           THEN /\ process_object' = [images |-> images.value] @@ process_object
                /\ pc' = "handle_request"
                /\ UNCHANGED outcome
           ELSE /\ RunRaises(Exc("Exception",
                        <<"Fail to convert PDF to Images">> \o images.exc.msg))
                /\ UNCHANGED process_object
    /\ UNCHANGED << futures, yielded, document_results, content, run_no, first_outcome >>
    /\ UNCHANGED << doc_vars, param_vars, page_vars >>

\* a bug: the collection waits for one future more than was submitted
Collecting_one_too_many ==
    /\ pc = "handle_request"
    /\ Len(futures) = Len(process_object.images) + 1

\* handle_request is past the submissions (line 356-368) and in line 370-373
Collecting ==
    /\ pc = "handle_request"
    /\ Len(futures) = Len(process_object.images)

\* handle_request, line 357-367: one executor.submit
Submit ==
    /\ pc = "handle_request"
    /\ Len(futures) < Len(process_object.images)
    /\ LET meta_data == process_object.images[Len(futures) + 1]
       IN  futures' = Append(futures,
               [page_id |-> meta_data.id, image |-> meta_data.image,
                state |-> "PENDING", result |-> <<>>])
    /\ UNCHANGED << pc, process_object, yielded, document_results, content,
                    outcome, run_no, first_outcome >>
    /\ UNCHANGED << doc_vars, param_vars, page_vars >>

\* a bug: a thread is started for every work item, whatever the pool size
TaskStart_unbounded(i) ==
    /\ futures[i].state = "PENDING"
    /\ \A j \in 1..(i - 1) : futures[j].state # "PENDING"
    /\ futures' = [futures EXCEPT ![i].state = "RUNNING"]
    /\ UNCHANGED << pc, process_object, yielded, document_results, content,
                    outcome, run_no, first_outcome >>
    /\ UNCHANGED << doc_vars, param_vars, page_vars >>

\* a worker thread of the pool takes the oldest work item of the queue
TaskStart(i) ==
    /\ futures[i].state = "PENDING"
    /\ \A j \in 1..(i - 1) : futures[j].state # "PENDING"
    /\ Cardinality({ j \in 1..Len(futures) : futures[j].state = "RUNNING" }) < max_workers
    /\ futures' = [futures EXCEPT ![i].state = "RUNNING"]
    /\ UNCHANGED << pc, process_object, yielded, document_results, content,
                    outcome, run_no, first_outcome >>
    /\ UNCHANGED << doc_vars, param_vars, page_vars >>

\* a bug: a page task that failed is put back into the queue
TaskFinish_retrying(i) ==
    /\ futures[i].state = "RUNNING"
    /\ LET result == process_document_text(futures[i].page_id,
                         ocr_engine[futures[i].image], num_rows, num_columns,
                         space_redutor, font_size_regulator)
       IN  futures' = IF result.ok
                      THEN [futures EXCEPT ![i].state = "FINISHED",
                                           ![i].result = << result >>]
                      ELSE [futures EXCEPT ![i].state = "PENDING"]
    /\ UNCHANGED << pc, process_object, yielded, document_results, content,
                    outcome, run_no, first_outcome >>
    /\ UNCHANGED << doc_vars, param_vars, page_vars >>

\* the worker runs _process_document_text and sets the future's result or
\* exception
TaskFinish(i) ==
    /\ futures[i].state = "RUNNING"
    /\ futures' = [futures EXCEPT
            ![i].state = "FINISHED",
            ![i].result = << process_document_text(futures[i].page_id,
                                ocr_engine[futures[i].image], num_rows, num_columns,
                                space_redutor, font_size_regulator) >>]
    /\ UNCHANGED << pc, process_object, yielded, document_results, content,
                    outcome, run_no, first_outcome >>
    /\ UNCHANGED << doc_vars, param_vars, page_vars >>

\* a bug: a failed page is skipped instead of raised
Collect_swallowing(i) ==
    /\ pc = "handle_request"
    /\ Len(futures) = Len(process_object.images)
    /\ i \notin yielded
    /\ futures[i].state = "FINISHED"
    /\ yielded' = yielded \cup {i}
    /\ LET result == futures[i].result[1]
       IN  document_results' = IF result.ok THEN Append(document_results, result.value)
                               ELSE document_results
    /\ UNCHANGED << pc, outcome, process_object, futures, content, run_no, first_outcome >>
    /\ UNCHANGED << doc_vars, param_vars, page_vars >>

\* a bug: on the first failure the tasks still waiting are cancelled
Collect_cancelling(i) ==
    /\ Collecting
    /\ i \notin yielded
    /\ futures[i].state = "FINISHED"
    /\ yielded' = yielded \cup {i}
    /\ LET result == futures[i].result[1]
       IN  IF result.ok
           THEN /\ document_results' = Append(document_results, result.value)
                /\ UNCHANGED << pc, outcome, futures >>
           ELSE /\ RunRaises(result.exc)
                /\ futures' = [j \in 1..Len(futures) |->
                                  IF futures[j].state = "PENDING"
                                  THEN [futures[j] EXCEPT !.state = "CANCELLED"]
                                  ELSE futures[j]]
                /\ UNCHANGED document_results
    /\ UNCHANGED << process_object, content, run_no, first_outcome >>
    /\ UNCHANGED << doc_vars, param_vars, page_vars >>

\* a bug: the clean-up of line 383-384 is also done when a page task failed
Collect_cleaning_up(i) ==
    /\ Collecting
    /\ i \notin yielded
    /\ futures[i].state = "FINISHED"
    /\ yielded' = yielded \cup {i}
    /\ LET result == futures[i].result[1]
       IN  IF result.ok
           THEN /\ document_results' = Append(document_results, result.value)
                /\ UNCHANGED << pc, outcome, process_object >>
           ELSE /\ RunRaises(result.exc)
                /\ process_object' =
                      [k \in DOMAIN process_object \ {"images", "document_bits"}
                         |-> process_object[k]]
                /\ UNCHANGED document_results
    /\ UNCHANGED << futures, content, run_no, first_outcome >>
    /\ UNCHANGED << doc_vars, param_vars, page_vars >>

\* handle_request, line 370-373: as_completed yields a finished future and
\* future.result() returns its result or raises its exception
Collect(i) ==
    /\ Collecting
    /\ i \notin yielded
    /\ futures[i].state = "FINISHED"
    /\ yielded' = yielded \cup {i}
    /\ LET result == futures[i].result[1]
       IN  IF result.ok
           THEN /\ document_results' = Append(document_results, result.value)
                /\ UNCHANGED << pc, outcome >>
           ELSE /\ RunRaises(result.exc)
                /\ UNCHANGED document_results
    /\ UNCHANGED << process_object, futures, content, run_no, first_outcome >>
    /\ UNCHANGED << doc_vars, param_vars, page_vars >>

\* a bug: the results are assembled in the order they were collected
sorted_by_page_id_unsorted(results) == results

\* sorted(document_results, key=lambda x: x['page_id']): a stable sort
RECURSIVE sorted_by_page_id(_)
sorted_by_page_id(results) ==
    IF results = <<>> THEN <<>>
    ELSE LET rest == sorted_by_page_id(SubSeq(results, 1, Len(results) - 1))
             e == results[Len(results)]
             later == { k \in 1..Len(rest) : rest[k].page_id > e.page_id }
             at == IF later = {} THEN Len(rest) + 1 ELSE MinOf(later)
         IN  SubSeq(rest, 1, at - 1) \o <<e>> \o SubSeq(rest, at, Len(rest))

\* a bug: the text of a page is appended only if it is not empty
RECURSIVE content_of_skipping_empty(_)
content_of_skipping_empty(sorted_data) ==
    IF sorted_data = <<>> THEN <<>>
    ELSE (IF Head(sorted_data).formated_text = <<>> THEN <<>>
          ELSE << Head(sorted_data).formated_text >>)
         \o << EndOfPage(Head(sorted_data).page_id) >>
         \o content_of_skipping_empty(Tail(sorted_data))

\* handle_request, line 377-380
RECURSIVE content_of(_)
content_of(sorted_data) ==
    IF sorted_data = <<>> THEN <<>>
    ELSE << Head(sorted_data).formated_text, EndOfPage(Head(sorted_data).page_id) >>
         \o content_of(Tail(sorted_data))

\* a bug: the text is assembled as soon as one result is in
Assemble_early ==
    /\ Collecting
    /\ yielded # {}
    /\ LET sorted_data == sorted_by_page_id(document_results)
           full_document_text == Join(content_of(sorted_data), NewLine)
       IN  /\ content' = content_of(sorted_data)
           /\ process_object' =
                 [k \in (DOMAIN process_object \cup {"text"}) \ {"images", "document_bits"}
                    |-> IF k = "text" THEN Lower(full_document_text)
                        ELSE process_object[k]]
    /\ pc' = "assembled"
    /\ UNCHANGED << futures, yielded, document_results, outcome, run_no, first_outcome >>
    /\ UNCHANGED << doc_vars, param_vars, page_vars >>

\* handle_request, line 375-386
Assemble ==
    /\ Collecting
    /\ yielded = 1..Len(futures)
    /\ LET sorted_data == sorted_by_page_id(document_results)
           full_document_text == Join(content_of(sorted_data), NewLine)
       IN  /\ content' = content_of(sorted_data)
           /\ process_object' =
                 [k \in (DOMAIN process_object \cup {"text"}) \ {"images", "document_bits"}
                    |-> IF k = "text" THEN Lower(full_document_text)
                        ELSE process_object[k]]
    /\ pc' = "assembled"
    /\ UNCHANGED << futures, yielded, document_results, outcome, run_no, first_outcome >>
    /\ UNCHANGED << doc_vars, param_vars, page_vars >>

\* run, line 81-88
Finish ==
    /\ pc = "assembled"
    /\ LET formated_text == process_object.text
       IN  IF formated_text # <<>>
           THEN /\ pc' = "returned"
                /\ outcome' = << Ok(formated_text) >>
           ELSE RunRaises(Exc("RuntimeError", <<"Document doc, do not contain text!">>))
    /\ UNCHANGED << process_object, futures, yielded, document_results, content,
                    run_no, first_outcome >>
    /\ UNCHANGED << doc_vars, param_vars, page_vars >>

\* the caller builds a controller again (create_controller, with a pool of any
\* size) and runs it on the same document with the same parameters
Rerun(workers) ==
    /\ pc \in {"returned", "raised"}
    /\ run_no = 1
    /\ run_no' = 2
    /\ first_outcome' = outcome
    /\ max_workers' = workers
    /\ pc' = "run"
    /\ process_object' = NewProcessObject
    /\ futures' = <<>>
    /\ yielded' = {}
    /\ document_results' = <<>>
    /\ content' = <<>>
    /\ outcome' = <<>>
    /\ UNCHANGED << file_type, pdf_pages, pages_to_include, ocr_engine >>
    /\ UNCHANGED << param_vars, page_vars >>

Next ==
    \/ ConvertToImages
    \/ Submit
    \/ \E i \in 1..Len(futures) : TaskStart(i)
    \/ \E i \in 1..Len(futures) : TaskFinish(i)
    \/ \E i \in 1..Len(futures) : Collect(i)
    \/ Assemble
    \/ Finish
    \/ \E workers \in 1..MaxWorkers : Rerun(workers)

Spec == Init /\ [][Next]_vars

(***************************************************************************)
(* FairSpec: one run of the controller.  The threads are scheduled and    *)
(* every page task comes to its end: while the main thread or a worker     *)
(* thread can take a step, a step is taken.                                *)
(***************************************************************************)
RunNext ==
    \/ ConvertToImages
    \/ Submit
    \/ \E i \in 1..Len(futures) : TaskStart(i)
    \/ \E i \in 1..Len(futures) : TaskFinish(i)
    \/ \E i \in 1..Len(futures) : Collect(i)
    \/ Assemble
    \/ Finish

\* ENABLED <<RunNext>>_vars, spelled out from the guards of the actions (every
\* action changes pc or futures or yielded)
RunCanStep ==
    \/ pc = "run"
    \/ pc = "handle_request" /\ Len(futures) < Len(process_object.images)
    \/ \E i \in 1..Len(futures) :
          /\ futures[i].state = "PENDING"
          /\ \A j \in 1..(i - 1) : futures[j].state # "PENDING"
          /\ Cardinality({ j \in 1..Len(futures) : futures[j].state = "RUNNING" })
                < max_workers
    \/ \E i \in 1..Len(futures) : futures[i].state = "RUNNING"
    \/ Collecting /\ \E i \in 1..Len(futures) :
                        i \notin yielded /\ futures[i].state = "FINISHED"
    \/ Collecting /\ yielded = 1..Len(futures)
    \/ pc = "assembled"

\* weak fairness of RunNext: WF_vars(RunNext) with ENABLED spelled out
FairSpec ==
    /\ Init
    /\ [][RunNext]_vars
    /\ ([]<>(~RunCanStep) \/ []<><<RunNext>>_vars)

(***************************************************************************)
(* Properties of the document assembly (Spec)                              *)
(***************************************************************************)
\* handle_request has returned: it set 'text' (line 382) before returning
HandleRequestReturned == "text" \in DOMAIN process_object

FutureOk(i) == futures[i].state = "FINISHED" /\ futures[i].result[1].ok
FutureFailed(i) == futures[i].state = "FINISHED" /\ ~futures[i].result[1].ok

\* the future of the page with this id
FutureOfPage(id) == CHOOSE i \in 1..Len(futures) : futures[i].page_id = id

\* C1: whatever the pool size and the order in which the page tasks complete
\* and are collected, the text handle_request returns is, lower-cased, the
\* pages' texts each followed by its "End of page id" marker, in ascending
\* page id 1, 2, ..., n.
C1_OutputInPageIdOrder ==
    HandleRequestReturned =>
        /\ Len(content) = 2 * Len(futures)
        /\ \A id \in 1..Len(futures) :
              /\ content[2 * id - 1] = futures[FutureOfPage(id)].result[1].value.formated_text
              /\ content[2 * id] = EndOfPage(id)
        /\ process_object.text = Lower(Join(content, NewLine))

\* C1 witness: three pages collected in the order 3, 1, 2 and assembled
C1_Witness ==
    /\ HandleRequestReturned
    /\ Len(document_results) = 3
    /\ document_results[1].page_id = 3
    /\ document_results[2].page_id = 1
    /\ document_results[3].page_id = 2
    /\ document_results[1].formated_text # document_results[2].formated_text

\* the engine reads the page of future i and finds no detection on it
BlankPage(i) == ocr_engine[futures[i].image] = EngineReads(<<>>)

\* C2: a document of at least one page, all of whose pages have no detection,
\* never makes run return a text (it fails with the empty-document error).
C2_BlankDocumentNeverReturns ==
    (/\ Len(futures) >= 1
     /\ \A i \in 1..Len(futures) : BlankPage(i))
    => pc # "returned"

\* C3: a page without detections gives the empty page text, without a call of
\* the axis binning, and once the document is assembled its page body is empty
\* and its "End of page id" marker stands at the place of its page id.
C3_EmptyPage ==
    \A i \in 1..Len(futures) :
        (BlankPage(i) /\ futures[i].state = "FINISHED") =>
            /\ futures[i].result[1].ok
            /\ futures[i].result[1].value.formated_text = <<>>
            /\ futures[i].result[1].cut_calls = 0
            /\ HandleRequestReturned =>
                  /\ content[2 * futures[i].page_id - 1] = <<>>
                  /\ content[2 * futures[i].page_id] = EndOfPage(futures[i].page_id)

\* C3 witness: an assembled document with a blank page after a page with text
C3_Witness ==
    /\ HandleRequestReturned
    /\ \E i, j \in 1..Len(futures) :
          /\ BlankPage(i)
          /\ futures[j].page_id < futures[i].page_id
          /\ futures[j].result[1].value.formated_text # <<>>
          /\ futures[j].result[1].cut_calls = 2

\* the exception run raises for the exception e of a page task
RunException(e) == Exc("Exception", <<"Fail in OCR process">> \o e.msg)

\* C7: a failed page task fails the whole call.  handle_request returns a text
\* only if no page task failed; the first failed result it collects makes run
\* raise that failure, and from then on nothing more is collected and no text
\* is produced.
C7_FailFast ==
    /\ [](HandleRequestReturned => \A i \in 1..Len(futures) : FutureOk(i))
    /\ [](\A i \in yielded : FutureFailed(i) =>
             /\ pc = "raised"
             /\ outcome = << Raise(RunException(futures[i].result[1].exc)) >>
             /\ ~HandleRequestReturned
             /\ \A j \in yielded \ {i} : FutureOk(j)
             /\ Len(document_results) = Cardinality(yielded) - 1)
    /\ [][(\E i \in yielded : FutureFailed(i)) =>
             \/ run_no' # run_no
             \/ UNCHANGED << yielded, document_results, process_object, pc, outcome >>]_vars

\* C7 witness: run has raised the failure of one page while the result of
\* another page, finished without error, was not collected
C7_Witness ==
    /\ pc = "raised"
    /\ \E i \in yielded : FutureFailed(i)
    /\ \E j \in 1..Len(futures) : j \notin yielded /\ FutureOk(j)

\* the images handle_request was given
ImagesOfDocument == convert_pdf_to_images(file_type, pdf_pages, pages_to_include).value

\* C8: when handle_request has returned, it had submitted one task per image,
\* every task has finished and the result of every task was collected: the
\* text is never returned while a task is pending or running.
C8_ReturnsAfterAllTasks ==
    HandleRequestReturned =>
        /\ Len(futures) = Len(ImagesOfDocument)
        /\ \A i \in 1..Len(futures) : futures[i].state = "FINISHED" /\ i \in yielded
        /\ Len(document_results) = Len(futures)
        /\ { document_results[k].page_id : k \in 1..Len(document_results) }
              = { futures[i].page_id : i \in 1..Len(futures) }

\* C8 witness: a text returned for three pages by a pool of one worker
C8_Witness ==
    /\ pc = "returned"
    /\ Len(futures) = 3
    /\ max_workers = 1

\* C9: the second run over the same document with the same parameters returns
\* a text exactly when the first did, and then the same text, whatever the
\* pool sizes and the interleavings of the two runs.
C9_SameOutputOnRerun ==
    (run_no = 2 /\ pc \in {"returned", "raised"}) =>
        /\ outcome[1].ok = first_outcome[1].ok
        /\ outcome[1].ok => outcome[1].value = first_outcome[1].value

\* C9 witness: the second run returned a text of several pages that it
\* collected out of page order
C9_Witness ==
    /\ run_no = 2
    /\ pc = "returned"
    /\ \E k \in 1..(Len(document_results) - 1) :
          document_results[k].page_id > document_results[k + 1].page_id

(***************************************************************************)
(* Properties of the page reconstruction (PageSpec)                        *)
(***************************************************************************)
\* _extract_formated_text_from_image has returned the text of a page with
\* detections; dataset is the frame _format_output was given
PageFormatted == pg_pc = "returned" /\ ocr_output # <<>>

\* the rows of each line of the page, in the order _format_line visits them,
\* the lines in the order of reconstructed_doc after line 284
PageLines == Reverse(groupby_row(sort_values(dataset)))

\* the page text is these lines
PageTextIsPageLines ==
    page_result = << Ok(Join([l \in 1..Len(PageLines) |->
                                 format_line(PageLines[l], space_redutor,
                                             font_size_regulator)], NewLine)) >>

\* the line the i-th detection of the OCR output is written on
LineOf(i) == CHOOSE l \in 1..Len(PageLines) :
                 \E k \in 1..Len(PageLines[l]) : PageLines[l][k] = dataset[i]

\* the transformed vertical coordinate y' = maxY - y of the i-th detection
TransformedY(i) ==
    LET metadata == create_ocr_metadata(ocr_output).value
        maxY == MaxOf({ metadata[k].y : k \in 1..Len(metadata) })
    IN  maxY - metadata[i].y

\* C4: in every line the fragments stand in ascending order of their x, also
\* when two of them share a column bucket.
C4_LineInAscendingX ==
    PageFormatted =>
        \A l \in 1..Len(PageLines) :
            \A k \in 1..(Len(PageLines[l]) - 1) :
                PageLines[l][k].x <= PageLines[l][k + 1].x

\* C5: of two detections of a page, the one with the larger transformed y
\* (nearer the top of the page) is on the same line as the other or on an
\* earlier line of the page text.
C5_RowOrder ==
    PageFormatted =>
        /\ Len(dataset) = Len(ocr_output)
        /\ PageTextIsPageLines
        /\ \A i, j \in 1..Len(dataset) :
              TransformedY(i) > TransformedY(j) => LineOf(i) <= LineOf(j)

\* C5 witness: a page of several lines whose OCR output lists a detection of
\* a lower line before a detection of a higher line
C5_Witness ==
    /\ PageFormatted
    /\ \E i, j \in 1..Len(dataset) :
          i < j /\ TransformedY(i) < TransformedY(j) /\ LineOf(j) < LineOf(i)

\* the bucket indices are 0..k-1 for some 1 <= k <= n
Contiguous(indices, n) == \E k \in 1..n : indices = 0..(k - 1)

\* C6: the bucket indices the axis binning assigns are exactly 0..k-1 for some
\* 1 <= k <= N, whether or not all N intervals hold a value, and a larger
\* coordinate never gets a smaller index.  Rows are binned on the transformed
\* y, columns on x.
C6_BucketsContiguousMonotonic ==
    /\ pg_pc \in {"rows", "columns", "returned"} /\ ocr_output # <<>> =>
          /\ Contiguous({ dataset[i].row : i \in 1..Len(dataset) }, num_rows)
          /\ \A i, j \in 1..Len(dataset) :
                dataset[i].y <= dataset[j].y => dataset[i].row <= dataset[j].row
    /\ pg_pc \in {"columns", "returned"} /\ ocr_output # <<>> =>
          /\ Contiguous({ dataset[i].column : i \in 1..Len(dataset) }, num_columns)
          /\ \A i, j \in 1..Len(dataset) :
                dataset[i].x <= dataset[j].x => dataset[i].column <= dataset[j].column

\* C6 witness: three column intervals of which the middle one holds no value
C6_Witness ==
    /\ pg_pc = "columns"
    /\ num_columns = 3
    /\ { dataset[i].classes_x : i \in 1..Len(dataset) } = {0, 2}
    /\ { dataset[i].column : i \in 1..Len(dataset) } = {0, 1}

\* the pivot when the k-th row of a line is visited
PivotAt(line, k) == IF k = 1 THEN 0 ELSE line[k - 1].x + line[k - 1].text_length

\* C10: in every line, before the text of a detection with x >= pivot stand
\* exactly floor((x - pivot) / (2 * (space_redutor + 1))) spaces, the pivot
\* being 0 at the first detection and x + text_length of the detection before
\* at the others; 'Hello' at 0 and 'World' at 60 with space_redutor 8 give
\* 'Hello', three spaces, 'World'.
C10_SpacesBeforeText ==
    PageFormatted =>
        /\ PageTextIsPageLines
        /\ \A l \in 1..Len(PageLines) :
              LET line == PageLines[l]
                  line_text == format_line_loop(line, 1, 0, <<>>, space_redutor)
              IN  /\ Len(line_text) = 2 * Len(line)
                  /\ \A k \in 1..Len(line) :
                        /\ line_text[2 * k] = line[k].text
                        /\ line[k].x >= PivotAt(line, k) =>
                              line_text[2 * k - 1] =
                                  Spaces((line[k].x - PivotAt(line, k))
                                         \div (2 * (space_redutor + 1)))
        /\ (ocr_output = << HelloAt0, WorldAt60 >> /\ space_redutor = 8) =>
              page_result = << Ok(<<"H","e","l","l","o"," "," "," ","W","o","r","l","d">>) >>

\* C10 witness: the page of 'Hello' at 0 and 'World' at 60 with space_redutor 8
C10_Witness ==
    /\ PageFormatted
    /\ ocr_output = << HelloAt0, WorldAt60 >>
    /\ space_redutor = 8
    /\ page_result[1].ok
    /\ Len(page_result[1].value) = 13

\* C11: in every line, before the text of a detection with x < pivot stands
\* exactly one space; what stands before a text is always a run of zero or
\* more spaces, and it is never empty when the detection overlaps the pivot.
C11_OneSpaceWhenOverlapping ==
    PageFormatted =>
        /\ PageTextIsPageLines
        /\ \A l \in 1..Len(PageLines) :
              LET line == PageLines[l]
                  line_text == format_line_loop(line, 1, 0, <<>>, space_redutor)
              IN  \A k \in 1..Len(line) :
                     /\ \A c \in 1..Len(line_text[2 * k - 1]) :
                           line_text[2 * k - 1][c] = " "
                     /\ line[k].x < PivotAt(line, k) =>
                           line_text[2 * k - 1] = <<" ">>

\* C11 witness: 'Hi' at 3 follows 'Hello' at 0 (pivot 5) in one line, and the
\* line reads 'Hello', one space, 'Hi'
C11_Witness ==
    /\ PageFormatted
    /\ ocr_output = << HiAt3, HelloAt0 >>
    /\ num_columns = 2
    /\ page_result = << Ok(<<"H","e","l","l","o"," ","H","i">>) >>

\* the rows of all lines of the page, line after line
PageFragments == Join(PageLines, <<>>)

\* C15: every detection of the OCR output is one row of the frame at every
\* step; after the grid assignment it has one row index and one column index
\* inside the grid; in the page text it is written exactly once, and the lines
\* hold as many texts as there are detections.
C15_NoDetectionLostOrDuplicated ==
    /\ (pg_pc \in {"metadata", "dataset", "rows", "columns"} \/ PageFormatted) =>
          /\ Len(dataset) = Len(ocr_output)
          /\ \A i \in 1..Len(dataset) :
                /\ dataset[i].text = ocr_output[i].text
                /\ dataset[i].x = ocr_output[i].bounding_box[1][1]
    /\ (pg_pc = "columns" \/ PageFormatted) =>
          \A i \in 1..Len(dataset) :
             /\ dataset[i].row \in 0..(num_rows - 1)
             /\ dataset[i].column \in 0..(num_columns - 1)
    /\ PageFormatted =>
          /\ PageTextIsPageLines
          /\ Len(PageFragments) = Len(ocr_output)
          /\ \A i \in 1..Len(dataset) :
                Cardinality({ p \in 1..Len(PageFragments) :
                                 PageFragments[p] = dataset[i] }) = 1
          /\ LET line_texts == Join([l \in 1..Len(PageLines) |->
                                 format_line_loop(PageLines[l], 1, 0, <<>>,
                                                  space_redutor)], <<>>)
             IN  /\ Len(line_texts) = 2 * Len(ocr_output)
                 /\ \A p \in 1..Len(PageFragments) :
                       line_texts[2 * p] = PageFragments[p].text

\* C15 witness: three detections, two of them in the same cell of the grid
C15_Witness ==
    /\ PageFormatted
    /\ Len(ocr_output) = 3
    /\ \E i, j \in 1..Len(dataset) :
          /\ i # j
          /\ dataset[i].row = dataset[j].row
          /\ dataset[i].column = dataset[j].column

\* the edges of a bounding box [top-left, top-right, bottom-right, bottom-left]
TopEdgeY(bounding_box) == bounding_box[1][2]
BottomEdgeY(bounding_box) == bounding_box[3][2]

\* C16: the normalized detection of a raw row has the row's text, the first
\* coordinate of the first corner as x, the bottom edge plus half the box
\* height as y, and the number of characters of the text as length.
C16_DetectionGeometry ==
    pg_pc = "metadata" =>
        \A i \in 1..Len(dataset) :
           LET bounding_box == ocr_output[i].bounding_box
           IN  /\ dataset[i].text = ocr_output[i].text
               /\ dataset[i].x = bounding_box[1][1]
               /\ dataset[i].text_length = Len(ocr_output[i].text)
               /\ dataset[i].y = BottomEdgeY(bounding_box)
                      + (BottomEdgeY(bounding_box) - TopEdgeY(bounding_box)) \div 2

\* the values of one axis of the frame
AxisValues(source_name) == { dataset[i][source_name] : i \in 1..Len(dataset) }

\* v lies on the boundary between the intervals b-1 and b (counted from 0) of
\* the n equal-width intervals over [mn, mx]
OnBoundary(v, mn, mx, n, b) == (v - mn) * n = b * (mx - mn)

\* the intervals of an axis are [lo, hi), the last one [lo, hi]
HalfOpenIntervals(source_name, classes_name, n) ==
    LET mn == MinOf(AxisValues(source_name))
        mx == MaxOf(AxisValues(source_name))
    IN  mn < mx =>
           \A i \in 1..Len(dataset) :
              LET v == dataset[i][source_name]
              IN  /\ \A b \in 1..(n - 1) :
                        OnBoundary(v, mn, mx, n, b) => dataset[i][classes_name] = b
                  /\ v = mx => dataset[i][classes_name] = n - 1

\* the intervals of an axis are (lo, hi], the first one [lo, hi]
RightClosedIntervals(source_name, classes_name, n) ==
    LET mn == MinOf(AxisValues(source_name))
        mx == MaxOf(AxisValues(source_name))
    IN  mn < mx =>
           \A i \in 1..Len(dataset) :
              LET v == dataset[i][source_name]
                  c == dataset[i][classes_name]
              IN  /\ \A b \in 1..(n - 1) :
                        OnBoundary(v, mn, mx, n, b) => c = b - 1
                  /\ v = mx => c = n - 1
                  /\ v = mn => c = 0
                  /\ c \in 0..(n - 1)
                  /\ c * (mx - mn) <= (v - mn) * n
                  /\ (v - mn) * n <= (c + 1) * (mx - mn)

\* C17 as stated: the axis intervals are half-open [lo, hi) with the last one
\* closed: a value on an interior boundary is in the interval whose lower
\* bound it is, and the maximum is in the last interval.
C17_HalfOpenIntervals ==
    /\ pg_pc \in {"rows", "columns"} \/ PageFormatted =>
          HalfOpenIntervals("y", "classes_y", num_rows)
    /\ pg_pc = "columns" \/ PageFormatted =>
          HalfOpenIntervals("x", "classes_x", num_columns)

\* C17 amended: the axis intervals are equal-width and half-open (lo, hi] with
\* the first one closed: a value on an interior boundary is in the interval
\* whose upper bound it is, the maximum is in the last interval and the
\* minimum in the first.
C17_RightClosedIntervals ==
    /\ pg_pc \in {"rows", "columns"} \/ PageFormatted =>
          RightClosedIntervals("y", "classes_y", num_rows)
    /\ pg_pc = "columns" \/ PageFormatted =>
          RightClosedIntervals("x", "classes_x", num_columns)

\* C17 witness: x values 0, 30 and 60 over two columns, 30 being the boundary
C17_Witness ==
    /\ pg_pc = "columns"
    /\ num_columns = 2
    /\ AxisValues("x") = {0, 30, 60}
    /\ \E i \in 1..Len(dataset) : dataset[i].x = 30 /\ dataset[i].classes_x = 0

(***************************************************************************)
(* Properties of the normalization of degenerate boxes (NormalizeSpec)     *)
(***************************************************************************)
\* the corner points of a bounding box
CornerPoints(bounding_box) == { bounding_box[k] : k \in 1..Len(bounding_box) }

\* the page call has failed on reading a corner that is not there
PageFailedOnCorner ==
    /\ pg_pc = "raised"
    /\ dataset = <<>>
    /\ page_result = << Raise(Exc("Exception", <<"Fail on format ocr output",
                                                  "list index out of range">>)) >>

\* C18 as stated: once the detections of a page are normalized, the page call
\* has failed if the bounding box of one of them has fewer than two distinct
\* corner points.
C18_DegenerateBoxFails ==
    (/\ pg_pc # "called"
     /\ \E i \in 1..Len(ocr_output) :
           Cardinality(CornerPoints(ocr_output[i].bounding_box)) < 2)
    => PageFailedOnCorner

\* C18 amended: once the detections of a page are normalized, the page call
\* has failed, with the index error as its cause and no detection produced, if
\* the bounding box of one of them lists fewer than two corner points.
C18_ShortBoxFails ==
    (/\ pg_pc # "called"
     /\ \E i \in 1..Len(ocr_output) : Len(ocr_output[i].bounding_box) < 2)
    => PageFailedOnCorner

\* C18 witness: the second detection of a page has a box of one point and the
\* page call has failed
C18_Witness ==
    /\ PageFailedOnCorner
    /\ ocr_output = << HelloAt0, AbOnePoint >>

(***************************************************************************)
(* Properties of the returned text and of the errors (Spec)                *)
(***************************************************************************)
\* the document is one page on which the engine reads 'Hi'
OnePageHi ==
    /\ Len(futures) = 1
    /\ ocr_engine[futures[1].image] = EngineReads(<< HiAt3 >>)

\* C12: the text handle_request returns has no upper-case letter: it is the
\* joined page texts and markers with every upper-case letter replaced by its
\* lower-case letter; a single page reading 'Hi' gives 'hi', a newline and
\* 'end of page 1'.
C12_TextIsLowerCase ==
    HandleRequestReturned =>
        LET text == process_object.text
            joined == Join(content, NewLine)
        IN  /\ \A k \in 1..Len(text), u \in 1..Len(UpperChars) : text[k] # UpperChars[u]
            /\ Len(text) = Len(joined)
            /\ \A k \in 1..Len(text) :
                  \/ text[k] = joined[k]
                  \/ \E u \in 1..Len(UpperChars) :
                        joined[k] = UpperChars[u] /\ text[k] = LowerChars[u]
            /\ OnePageHi =>
                  text = <<"h","i","\n","e","n","d"," ","o","f"," ","p","a","g","e"," ","1">>

\* C12 witness: run has returned the text of the single page reading 'Hi'
C12_Witness ==
    /\ pc = "returned"
    /\ OnePageHi
    /\ content = << Hi, EndOfPage(1) >>
    /\ outcome = << Ok(process_object.text) >>

\* C13: for a document of n images the returned text is the newline-join of
\* exactly 2n segments: for each page id 1..n the text of that page and right
\* after it 'End of page id', and each marker is there exactly once.
C13_TwoSegmentsPerPage ==
    HandleRequestReturned =>
        LET n == Len(ImagesOfDocument)
        IN  /\ Len(content) = 2 * n
            /\ \A id \in 1..n :
                  /\ \E i \in 1..Len(futures) :
                        /\ futures[i].page_id = id
                        /\ FutureOk(i)
                        /\ << content[2 * id - 1], content[2 * id] >>
                              = << futures[i].result[1].value.formated_text,
                                   EndOfPage(id) >>
                  /\ Cardinality({ k \in 1..Len(content) :
                                      content[k] = EndOfPage(id) }) = 1
            /\ process_object.text = Lower(Join(content, NewLine))

\* C13 witness: two pages, the first without text, give four segments
C13_Witness ==
    /\ HandleRequestReturned
    /\ Len(content) = 4
    /\ content[1] = <<>>
    /\ content[3] # <<>>

\* run has raised because the text handle_request returned is empty
EmptyDocumentRaised ==
    /\ pc = "raised"
    /\ HandleRequestReturned
    /\ process_object.text = <<>>

\* run has raised because a page task failed
PageFailureRaised ==
    /\ pc = "raised"
    /\ \E i \in yielded : FutureFailed(i)

\* the kind of error a failed page task makes run raise
PageFailureKind == RunException(Exc("Exception", <<>>)).type

\* C14: when the final text is empty run fails with an error of another kind
\* than the error it fails with when a page task failed, so that the caller
\* can tell the two apart.
C14_EmptyDocumentErrorKind ==
    /\ PageFailureRaised => outcome[1].exc.type = PageFailureKind
    /\ EmptyDocumentRaised =>
          /\ ~outcome[1].ok
          /\ outcome[1].exc.type # PageFailureKind

\* the engine reads at least one detection on this page of the document
HasDetections(image) ==
    /\ ~ocr_engine[image].fails
    /\ ocr_engine[image].output # <<>>

\* what a page task raises when pd.cut refuses the bin count
InvalidBins ==
    Exc("Exception", <<"Fail on format ocr output",
                       "bins should be a positive integer.">>)

\* C19: with num_rows = 0 or num_columns = 0, the task of a page with at least
\* one detection ends with the invalid-bins error and no page text; a document
\* with such a page never makes handle_request or run return a text, and once
\* the failed task is collected run has raised.
C19_ZeroBucketsFail ==
    (num_rows = 0 \/ num_columns = 0) =>
        /\ \A i \in 1..Len(futures) :
              futures[i].state = "FINISHED" /\ HasDetections(futures[i].image) =>
                 /\ ~futures[i].result[1].ok
                 /\ futures[i].result[1].exc = InvalidBins
        /\ LET images == convert_pdf_to_images(file_type, pdf_pages, pages_to_include)
           IN  (/\ images.ok
                /\ \E k \in 1..Len(images.value) : HasDetections(images.value[k].image))
               => ~HandleRequestReturned /\ pc # "returned"
        /\ \A i \in yielded :
              HasDetections(futures[i].image) =>
                 /\ pc = "raised"
                 /\ ~outcome[1].ok

\* C19 witness: no column bucket, and run has raised the invalid-bins error of
\* a page with a detection
C19_Witness ==
    /\ num_columns = 0
    /\ pc = "raised"
    /\ outcome = << Raise(RunException(InvalidBins)) >>
    /\ \E i \in yielded : HasDetections(futures[i].image)

\* C20: when run has raised because a page task failed, the error it raised
\* carries the cause, the error of that failed task, and the id of the page
\* of that task.
C20_PageFailureCarriesPageId ==
    PageFailureRaised =>
        \E i \in yielded :
           /\ FutureFailed(i)
           /\ ~outcome[1].ok
           /\ LET e == outcome[1].exc
              IN  /\ e.msg = <<"Fail in OCR process">> \o futures[i].result[1].exc.msg
                  /\ \E k \in 1..Len(e.msg) : e.msg[k] = ToString(futures[i].page_id)

(***************************************************************************)
(* Properties of the worker pool (Spec)                                    *)
(***************************************************************************)
\* the page tasks a worker is executing
RunningTasks(fs) == { i \in 1..Len(fs) : fs[i].state = "RUNNING" }

\* C21: at every moment at most max_workers page tasks are running, and a
\* pending task starts only when fewer than max_workers tasks are running, so
\* that it waits while the pool is full.
C21_AtMostMaxWorkersRunning ==
    /\ [](Cardinality(RunningTasks(futures)) <= max_workers)
    /\ [][\A i \in 1..Len(futures) :
             (/\ futures[i].state = "PENDING"
              /\ Len(futures') >= i
              /\ futures'[i].state = "RUNNING")
             => Cardinality(RunningTasks(futures)) < max_workers]_vars

\* C21 witness: the pool of one worker is full and the two other pages wait
C21_Witness ==
    /\ max_workers = 1
    /\ Len(futures) = 3
    /\ futures[1].state = "FINISHED"
    /\ futures[2].state = "RUNNING"
    /\ futures[3].state = "PENDING"

\* the steps a page task takes: it is started once and run once
TaskStep(before, after) ==
    \/ after = before
    \/ before.state = "PENDING" /\ after.state = "RUNNING"
    \/ before.state = "RUNNING" /\ after.state = "FINISHED"

\* C22: in one call there is one task per image, in the order of the images
\* and never more tasks than images; a task is started once and runs
\* _process_document_text (one reading of the OCR engine) once: it never goes
\* back to pending or running, a finished task keeps its result, and after
\* the call has raised no task is submitted.
C22_OneTaskPerPageNoRetry ==
    /\ [](LET images == convert_pdf_to_images(file_type, pdf_pages, pages_to_include)
          IN  futures # <<>> =>
                 /\ images.ok
                 /\ Len(futures) <= Len(images.value)
                 /\ \A i \in 1..Len(futures) :
                       /\ futures[i].image = images.value[i].image
                       /\ futures[i].page_id = images.value[i].id
                 /\ \A i, j \in 1..Len(futures) :
                       i # j => futures[i].image # futures[j].image)
    /\ [][run_no' = run_no =>
             /\ Len(futures') >= Len(futures)
             /\ \A i \in 1..Len(futures) : TaskStep(futures[i], futures'[i])
             /\ pc = "raised" => Len(futures') = Len(futures)]_vars

\* C22 witness: the first of two page tasks failed, run has raised, and both
\* tasks have run to their end
C22_Witness ==
    /\ pc = "raised"
    /\ Len(futures) = 2
    /\ FutureFailed(1)
    /\ 1 \in yielded
    /\ futures[2].state = "FINISHED"

\* some page task of the call has been submitted and has not completed
SomeTaskNotCompleted == \E i \in 1..Len(futures) : futures[i].state # "FINISHED"

\* C23 as stated: while a submitted page task has not completed, the call has
\* neither returned nor raised (so that, if the task never completes, the call
\* never returns and never raises).
C23_StuckTaskStallsCall ==
    SomeTaskNotCompleted =>
        /\ ~HandleRequestReturned
        /\ pc \notin {"assembled", "returned", "raised"}

\* C23 amended: while a submitted page task has not completed, the call has
\* not returned a text; it has raised only if another page task failed and
\* that failure was collected, and the error is the one of that task.
C23_StuckTaskNeverReturns ==
    SomeTaskNotCompleted =>
        /\ ~HandleRequestReturned
        /\ pc \notin {"assembled", "returned"}
        /\ pc = "raised" =>
              \E j \in yielded :
                 /\ FutureFailed(j)
                 /\ outcome = << Raise(RunException(futures[j].result[1].exc)) >>

\* C23 witness: every page task but one has completed without failure and was
\* collected; the call waits for the last one
C23_Witness ==
    /\ pc = "handle_request"
    /\ Len(futures) = 3
    /\ futures[2].state = "RUNNING"
    /\ yielded = {1, 3}
    /\ Len(document_results) = 2

(***************************************************************************)
(* Properties of the page ids and of the ProcessObject (Spec)              *)
(***************************************************************************)
\* C24: the images handed to handle_request have the ids 1..n in the order
\* they were generated, whatever PDF pages they were made from, and so have
\* the page tasks and the collected results; an input that is one image has
\* the single id 1.
C24_PageIdsAreOneToN ==
    /\ "images" \in DOMAIN process_object =>
          /\ \A k \in 1..Len(process_object.images) : process_object.images[k].id = k
          /\ file_type = "pdf" =>
                Len(process_object.images) =
                   IF pages_to_include = <<>> THEN pdf_pages ELSE Len(pages_to_include)
          /\ file_type # "pdf" => Len(process_object.images) = 1
    /\ \A i \in 1..Len(futures) : futures[i].page_id = i
    /\ \A a, b \in 1..Len(document_results) :
          a # b => document_results[a].page_id # document_results[b].page_id
    /\ HandleRequestReturned =>
          { document_results[a].page_id : a \in 1..Len(document_results) }
             = 1..Len(futures)

\* C24 witness: pages_to_include names page 2 and then page 1; the image of
\* page 2 has id 1 and the image of page 1 has id 2
C24_Witness ==
    /\ pages_to_include = <<2, 1>>
    /\ HandleRequestReturned
    /\ Len(futures) = 2
    /\ futures[1].image = 2 /\ futures[1].page_id = 1
    /\ futures[2].image = 1 /\ futures[2].page_id = 2

(***************************************************************************)
(* font_size_regulator (PageSpec)                                          *)
(***************************************************************************)
\* values of font_size_regulator a second call is given
FontSizeRegulators == {1, 2, DefaultFontSizeRegulator, 2 * DefaultFontSizeRegulator}

C26_NoTaskCancelledOnFailure ==
    /\ [](\A i \in 1..Len(futures) :
             futures[i].state \in {"PENDING", "RUNNING", "FINISHED"})
    /\ [][pc' = "raised" /\ run_no' = run_no =>
             /\ Len(futures') = Len(futures)
             /\ \A i \in 1..Len(futures) : TaskStep(futures[i], futures'[i])
             /\ pc # "raised" => futures' = futures]_vars

\* C26 witness: run has raised the failure of page 1 while page 2 is running
\* and page 3 waits for a worker
C26_Witness ==
    /\ PageFailureRaised
    /\ Len(futures) = 3
    /\ yielded = {1}
    /\ futures[2].state = "RUNNING"
    /\ futures[3].state = "PENDING"

(***************************************************************************)
(* Termination of handle_request (FairSpec)                                *)
(***************************************************************************)
\* C27: once handle_request is entered, it eventually returns a text or
\* raises, whatever the number of pages and the pool size.
C27_HandleRequestEnds ==
    pc = "handle_request" ~> (HandleRequestReturned \/ pc = "raised")

\* C27 witness: three pages went through a pool of one worker and
\* handle_request has returned
C27_Witness ==
    /\ max_workers = 1
    /\ Len(futures) = 3
    /\ pc = "assembled"
    /\ HandleRequestReturned

(***************************************************************************)
(* The ProcessObject (Spec)                                                *)
(***************************************************************************)
\* the ProcessObject handle_request is entered with
ProcessObjectOnEntry == [images |-> ImagesOfDocument] @@ NewProcessObject

\* C28: while handle_request submits and collects, and after it has raised
\* the failure of a page task, the ProcessObject is as it was on entry: no
\* 'text', 'images' and 'document_bits' still there.  When it has returned,
\* the ProcessObject has 'text', has lost 'images' and 'document_bits', and
\* 'file_name' and 'pages_to_include' are as on entry.
C28_ProcessObjectChangedOnlyOnSuccess ==
    /\ pc = "handle_request" \/ PageFailureRaised =>
          /\ process_object = ProcessObjectOnEntry
          /\ DOMAIN process_object =
                {"file_name", "document_bits", "pages_to_include", "images"}
    /\ HandleRequestReturned =>
          /\ DOMAIN process_object = {"file_name", "pages_to_include", "text"}
          /\ process_object.file_name = ProcessObjectOnEntry.file_name
          /\ process_object.pages_to_include = ProcessObjectOnEntry.pages_to_include
          /\ \A i \in 1..Len(futures) : FutureOk(i)

\* C28 witness: the second page task collected failed after the result of
\* another page was collected; run has raised and the ProcessObject is as on
\* entry
C28_Witness ==
    /\ PageFailureRaised
    /\ Len(document_results) = 1
    /\ Cardinality(yielded) = 2
    /\ process_object = ProcessObjectOnEntry
    /\ "text" \notin DOMAIN process_object

====
